---- MODULE Spec2Model ----
(***************************************************************************)
(* Model of the SpaceX launch client (src/client.py): the two public       *)
(* operations SpaceXClient.get_launches and                                *)
(* SpaceXClient.get_heaviest_launch, the date-range filter each of them    *)
(* builds, the single POST each of them issues, and the mapping /          *)
(* reduction of the returned documents.                                    *)
(*                                                                         *)
(* One behaviour is one call: Init draws the arguments of the call and the *)
(* behaviour of the remote end for that call, and one action runs the      *)
(* whole method.  The client keeps no state between calls (only base_url), *)
(* so calls are independent.                                               *)
(***************************************************************************)
EXTENDS Integers, Sequences, FiniteSets, TLC

VARIABLES
    pc,          \* "ready" before the call, "done" after it
    op,          \* "none", "get_launches" or "get_heaviest_launch"
    start_date,  \* argument: None or a date
    end_date,    \* argument: None or a date
    remote,      \* how the remote end answers a POST during this call
    posts,       \* the JSON bodies handed to requests.post, in order
    outcome      \* how the call ended: a returned value or a raised exception

vars == <<pc, op, start_date, end_date, remote, posts, outcome>>

(***************************************************************************)
(* Python / JSON values.  Every value carries its type in field t.         *)
(***************************************************************************)
None == [t |-> "None"]

JInt(n) == [t |-> "int", v |-> n]

JStr(s) == [t |-> "str", v |-> s]

JFloat(n) == [t |-> "float", v |-> n]

JList(q) == [t |-> "list", v |-> q]

JDict(f) == [t |-> "dict", v |-> f]

EmptyDict == [k \in {} |-> None]

\* bool(x), as used by `if x`, `x and y`, `x or y`, `not x`
Truthy(x) ==
    CASE x.t = "None" -> FALSE
      [] x.t = "int" -> x.v # 0
      [] x.t = "float" -> x.v # 0
      [] x.t = "str" -> x.v # ""
      [] x.t = "list" -> x.v # <<>>
      [] x.t = "dict" -> DOMAIN x.v # {}
      [] OTHER -> TRUE

\* d.get(k): the value under k, None when the key is missing
Get(d, k) == IF k \in DOMAIN d.v THEN d.v[k] ELSE None

\* d.get(k, default)
GetOr(d, k, default) == IF k \in DOMAIN d.v THEN d.v[k] ELSE default

\* d[k]: [ok, v], or KeyError when the key is missing
Subscript(d, k) ==
    IF k \in DOMAIN d.v
    THEN [ok |-> TRUE, v |-> d.v[k]]
    ELSE [ok |-> FALSE, exc |-> "KeyError"]

(***************************************************************************)
(* datetime.date: a (year, month, day) triple, ordered as a tuple;         *)
(* date + timedelta(days=n) goes through the proleptic Gregorian ordinal   *)
(* and raises OverflowError outside date.min .. date.max.                  *)
(***************************************************************************)
Date(y, m, d) == [t |-> "date", year |-> y, month |-> m, day |-> d]

DateGt(a, b) ==
    \/ a.year > b.year
    \/ a.year = b.year /\ a.month > b.month
    \/ a.year = b.year /\ a.month = b.month /\ a.day > b.day

IsLeap(y) == y % 4 = 0 /\ (y % 100 # 0 \/ y % 400 = 0)

DaysInMonth == <<31, 28, 31, 30, 31, 30, 31, 31, 30, 31, 30, 31>>

DaysBeforeMonthTable == <<0, 31, 59, 90, 120, 151, 181, 212, 243, 273, 304, 334, 365>>

DaysBeforeYear(y) ==
    (y - 1) * 365 + ((y - 1) \div 4) - ((y - 1) \div 100) + ((y - 1) \div 400)

DaysBeforeMonth(y, m) ==
    DaysBeforeMonthTable[m] + (IF m > 2 /\ IsLeap(y) THEN 1 ELSE 0)

\* date.toordinal(): 0001-01-01 is day 1
ToOrdinal(d) == DaysBeforeYear(d.year) + DaysBeforeMonth(d.year, d.month) + d.day

\* date.fromordinal(n)
FromOrdinal(ord) ==
    LET n0 == ord - 1
        n400 == n0 \div 146097
        r400 == n0 % 146097
        n100 == r400 \div 36524
        r100 == r400 % 36524
        n4 == r100 \div 1461
        r4 == r100 % 1461
        n1 == r4 \div 365
        n == r4 % 365
        year == n400 * 400 + 1 + n100 * 100 + n4 * 4 + n1
        leapyear == n1 = 3 /\ (n4 # 24 \/ n100 = 3)
        month0 == (n + 50) \div 32
        preceding0 == DaysBeforeMonthTable[month0]
                        + (IF month0 > 2 /\ leapyear THEN 1 ELSE 0)
        month == IF preceding0 > n THEN month0 - 1 ELSE month0
        preceding ==
            IF preceding0 > n
            THEN preceding0 - (DaysInMonth[month]
                                 + (IF month = 2 /\ leapyear THEN 1 ELSE 0))
            ELSE preceding0
    IN  IF n1 = 4 \/ n100 = 4
        THEN Date(year - 1, 12, 31)
        ELSE Date(year, month, n - preceding + 1)

\* date.max.toordinal()
MaxOrdinal == ToOrdinal(Date(9999, 12, 31))

\* d + timedelta(days=n): [ok |-> TRUE, v |-> date] or OverflowError
AddDays(d, n) ==
    LET o == ToOrdinal(d) + n
    IN  IF 0 < o /\ o <= MaxOrdinal
        THEN [ok |-> TRUE, v |-> FromOrdinal(o)]
        ELSE [ok |-> FALSE, exc |-> "OverflowError"]

\* int(datetime(y, m, d, tzinfo=timezone.utc).timestamp())
UtcMidnightTimestamp(d) == (ToOrdinal(d) - ToOrdinal(Date(1970, 1, 1))) * 86400

\* datetime.fromtimestamp(ts, tz=timezone.utc): the UTC calendar reading of ts
UtcFromTimestamp(ts) ==
    LET days == ts \div 86400
        secs == ts % 86400
    IN  [t |-> "datetime",
         date |-> FromOrdinal(days + ToOrdinal(Date(1970, 1, 1))),
         hour |-> secs \div 3600,
         minute |-> (secs % 3600) \div 60,
         second |-> secs % 60,
         tzinfo |-> "UTC"]

\* int(x) on a JSON value
IntOf(x) ==
    CASE x.t = "int" -> [ok |-> TRUE, v |-> x.v]
      [] x.t = "float" -> [ok |-> TRUE, v |-> x.v]
      [] x.t = "str" -> [ok |-> FALSE, exc |-> "ValueError"]
      [] OTHER -> [ok |-> FALSE, exc |-> "TypeError"]

\* text that float() parses (the decimal texts the model uses)
DecimalText == ("0" :> 0) @@ ("1" :> 1) @@ ("2" :> 2) @@ ("3" :> 3)

\* float(x) on a JSON value
FloatOf(x) ==
    CASE x.t = "int" -> [ok |-> TRUE, v |-> x.v]
      [] x.t = "float" -> [ok |-> TRUE, v |-> x.v]
      [] x.t = "str" ->
            IF x.v \in DOMAIN DecimalText
            THEN [ok |-> TRUE, v |-> DecimalText[x.v]]
            ELSE [ok |-> FALSE, exc |-> "ValueError"]
      [] OTHER -> [ok |-> FALSE, exc |-> "TypeError"]

(***************************************************************************)
(* The domain value and the ways a call can end.                           *)
(***************************************************************************)
Launch(id, launch_time, payload_ids, total_payload_mass_kg) ==
    [t |-> "Launch", id |-> id, launch_time |-> launch_time,
     payload_ids |-> payload_ids, total_payload_mass_kg |-> total_payload_mass_kg]

Return(v) == [kind |-> "return", value |-> v]

Raise(e) == [kind |-> "raise", exc |-> e]

(***************************************************************************)
(* The remote end.  requests.post either raises (no response), or gives a  *)
(* response whose raise_for_status() raises (4xx/5xx), or gives a response *)
(* with a JSON body.  A "canned" remote answers with a fixed body whatever *)
(* it is sent (the stub of the test suite); a "source" remote holds        *)
(* records and answers with those that satisfy the filter it is sent.      *)
(***************************************************************************)
TransportError == [kind |-> "transport_error"]

HttpError == [kind |-> "http_error"]

Canned(body) == [kind |-> "canned", body |-> body]

Source(records) == [kind |-> "source", records |-> records]

\* does a stored record satisfy the filter { "date_unix": { "$gte"?, "$lt"? } }
Matches(doc, query) ==
    IF "date_unix" \notin DOMAIN query
    THEN TRUE
    ELSE LET f == query["date_unix"]
             ts == doc.v["date_unix"].v
         IN  /\ ("$gte" \in DOMAIN f => ts >= f["$gte"])
             /\ ("$lt" \in DOMAIN f => ts < f["$lt"])

SourceFind(records, query) ==
    LET Test(doc) == Matches(doc, query)
    IN  JDict("docs" :> JList(SelectSeq(records, Test)))

\* requests.post(url, json=body): raises, or returns a response
Post(body, rem) ==
    CASE rem.kind = "transport_error" -> [ok |-> FALSE, exc |-> "ConnectionError"]
      [] rem.kind = "http_error" ->
            [ok |-> TRUE, status_ok |-> FALSE, json |-> JDict(EmptyDict)]
      [] rem.kind = "canned" ->
            [ok |-> TRUE, status_ok |-> TRUE, json |-> rem.body]
      [] rem.kind = "source" ->
            [ok |-> TRUE, status_ok |-> TRUE,
             json |-> SourceFind(rem.records, body.query)]

(***************************************************************************)
(* get_launches                                                            *)
(***************************************************************************)
\* variant: the comparison of the range check reversed
InvalidRangeLaunchesReversed(s, e) == Truthy(s) /\ Truthy(e) /\ DateGt(e, s)

\* if start_date and end_date and start_date > end_date
InvalidRangeLaunches(s, e) == Truthy(s) /\ Truthy(e) /\ DateGt(s, e)

\* variant: the lower bound taken a day late
DateUnixFilterLaunchesLateStart(s, e) ==
    LET end_plus_one_day == IF Truthy(e) THEN AddDays(e, 1) ELSE [ok |-> TRUE]
        keys == (IF Truthy(s) THEN {"$gte"} ELSE {})
                  \cup (IF Truthy(e) THEN {"$lt"} ELSE {})
    IN  IF ~end_plus_one_day.ok
        THEN end_plus_one_day
        ELSE [ok |-> TRUE,
              v |-> [k \in keys |->
                       IF k = "$gte"
                       THEN UtcMidnightTimestamp(s) + 86400
                       ELSE UtcMidnightTimestamp(end_plus_one_day.v)]]

\* the dict date_unix_filter: [ok, v] or the exception of end_date + 1 day
DateUnixFilterLaunches(s, e) ==
    LET end_plus_one_day == IF Truthy(e) THEN AddDays(e, 1) ELSE [ok |-> TRUE]
        keys == (IF Truthy(s) THEN {"$gte"} ELSE {})
                  \cup (IF Truthy(e) THEN {"$lt"} ELSE {})
    IN  IF ~end_plus_one_day.ok
        THEN end_plus_one_day
        ELSE [ok |-> TRUE,
              v |-> [k \in keys |->
                       IF k = "$gte"
                       THEN UtcMidnightTimestamp(s)
                       ELSE UtcMidnightTimestamp(end_plus_one_day.v)]]

QueryBodyLaunches(date_unix_filter) ==
    IF DOMAIN date_unix_filter # {}
    THEN "date_unix" :> date_unix_filter
    ELSE EmptyDict

RequestLaunches(query_body) ==
    [query |-> query_body,
     options |-> [select |-> <<"id", "date_unix", "payloads">>,
                  pagination |-> FALSE]]

\* variant: the comprehension keeps every document that has an id
KeepDocIdOnly(doc) == Get(doc, "id").t # "None"

\* the comprehension's condition
KeepDoc(doc) == Get(doc, "id").t # "None" /\ Get(doc, "date_unix").t # "None"

\* one element of the comprehension: [ok, v], or the exception of doc["id"],
\* doc["date_unix"] or int()
MapDoc(doc) ==
    LET id == Subscript(doc, "id")
        date_unix == Subscript(doc, "date_unix")
        ts == IntOf(date_unix.v)
        payloads == Get(doc, "payloads")
    IN  IF ~id.ok
        THEN id
        ELSE IF ~date_unix.ok
        THEN date_unix
        ELSE IF ~ts.ok
        THEN ts
        ELSE [ok |-> TRUE,
              v |-> Launch(id.v,
                           UtcFromTimestamp(ts.v),
                           IF Truthy(payloads) THEN payloads ELSE JList(<<>>),
                           None)]

RECURSIVE MapDocs(_, _, _)
MapDocs(docs, i, acc) ==
    IF i > Len(docs)
    THEN Return(acc)
    ELSE IF ~KeepDoc(docs[i])
         THEN MapDocs(docs, i + 1, acc)
         ELSE LET l == MapDoc(docs[i])
              IN  IF ~l.ok
                  THEN Raise(l.exc)
                  ELSE MapDocs(docs, i + 1, Append(acc, l.v))

\* the whole method: the bodies posted and how the call ends
RunGetLaunches(s, e, rem) ==
    IF InvalidRangeLaunches(s, e)
    THEN [posts |-> <<>>, outcome |-> Return(<<>>)]
    ELSE LET f == DateUnixFilterLaunches(s, e)
         IN  IF ~f.ok
             THEN [posts |-> <<>>, outcome |-> Raise(f.exc)]
             ELSE LET body == RequestLaunches(QueryBodyLaunches(f.v))
                      resp == Post(body, rem)
                  IN  [posts |-> <<body>>,
                       outcome |->
                         IF ~resp.ok
                         THEN Raise(resp.exc)
                         ELSE IF ~resp.status_ok
                         THEN Raise("HTTPError")
                         ELSE MapDocs(GetOr(resp.json, "docs", JList(<<>>)).v,
                                      1, <<>>)]

(***************************************************************************)
(* get_heaviest_launch                                                     *)
(***************************************************************************)
\* if start_date and end_date and start_date > end_date
InvalidRangeHeaviest(s, e) == Truthy(s) /\ Truthy(e) /\ DateGt(s, e)

\* variant: the upper bound taken at end_date itself, not the day after
DateUnixFilterHeaviestSameDay(s, e) ==
    LET keys == (IF Truthy(s) THEN {"$gte"} ELSE {})
                  \cup (IF Truthy(e) THEN {"$lt"} ELSE {})
    IN  [ok |-> TRUE,
         v |-> [k \in keys |->
                  IF k = "$gte"
                  THEN UtcMidnightTimestamp(s)
                  ELSE UtcMidnightTimestamp(e)]]

\* the dict date_unix_filter: [ok, v] or the exception of end_date + 1 day
DateUnixFilterHeaviest(s, e) ==
    LET end_plus_one == IF Truthy(e) THEN AddDays(e, 1) ELSE [ok |-> TRUE]
        keys == (IF Truthy(s) THEN {"$gte"} ELSE {})
                  \cup (IF Truthy(e) THEN {"$lt"} ELSE {})
    IN  IF ~end_plus_one.ok
        THEN end_plus_one
        ELSE [ok |-> TRUE,
              v |-> [k \in keys |->
                       IF k = "$gte"
                       THEN UtcMidnightTimestamp(s)
                       ELSE UtcMidnightTimestamp(end_plus_one.v)]]

QueryBodyHeaviest(date_unix_filter) ==
    IF DOMAIN date_unix_filter # {}
    THEN "date_unix" :> date_unix_filter
    ELSE EmptyDict

RequestHeaviest(query_body) ==
    [query |-> query_body,
     options |-> [select |-> <<"id", "date_unix", "payloads">>,
                  populate |-> <<[path |-> "payloads",
                                  select |-> <<"id", "mass_kg">>]>>,
                  pagination |-> FALSE]]

\* launch.get("payloads") or []
PayloadsOf(doc) ==
    LET p == Get(doc, "payloads")
    IN  IF Truthy(p) THEN p.v ELSE <<>>

\* what one payload reference adds to total_mass: [ok, v] or the exception of float()
MassOf(p) ==
    IF p.t = "dict"
    THEN LET m == Get(p, "mass_kg")
         IN  FloatOf(IF Truthy(m) THEN m ELSE JFloat(0))
    ELSE [ok |-> TRUE, v |-> 0]

\* the inner loop: total_mass of one launch, [ok, v] or an exception
RECURSIVE TotalMass(_, _, _)
TotalMass(payloads, i, total_mass) ==
    IF i > Len(payloads)
    THEN [ok |-> TRUE, v |-> total_mass]
    ELSE LET m == MassOf(payloads[i])
         IN  IF ~m.ok THEN m ELSE TotalMass(payloads, i + 1, total_mass + m.v)

\* variant: a launch of equal mass replaces the current heaviest
ReplacesOnTie(total_mass, heaviest_mass) ==
    heaviest_mass.t = "None" \/ total_mass >= heaviest_mass.v

\* variant: the lighter launch replaces the current one
ReplacesWhenLighter(total_mass, heaviest_mass) ==
    heaviest_mass.t = "None" \/ total_mass < heaviest_mass.v

\* if heaviest_mass is None or total_mass > heaviest_mass
Replaces(total_mass, heaviest_mass) ==
    heaviest_mass.t = "None" \/ total_mass > heaviest_mass.v

\* the outer loop: [ok, doc, mass] or an exception
RECURSIVE Reduce(_, _, _, _)
Reduce(launches, i, heaviest_doc, heaviest_mass) ==
    IF i > Len(launches)
    THEN [ok |-> TRUE, doc |-> heaviest_doc, mass |-> heaviest_mass]
    ELSE LET total == TotalMass(PayloadsOf(launches[i]), 1, 0)
         IN  IF ~total.ok
             THEN total
             ELSE IF Replaces(total.v, heaviest_mass)
                  THEN Reduce(launches, i + 1, launches[i], JFloat(total.v))
                  ELSE Reduce(launches, i + 1, heaviest_doc, heaviest_mass)

\* variant: expanded records are passed through, not unwrapped to their id
PayloadIdNotUnwrapped(p) == [ok |-> TRUE, v |-> p]

\* one element of payload_ids: p["id"] if isinstance(p, dict) else p
PayloadId(p) ==
    IF p.t = "dict" THEN Subscript(p, "id") ELSE [ok |-> TRUE, v |-> p]

RECURSIVE PayloadIds(_, _, _)
PayloadIds(payloads, i, acc) ==
    IF i > Len(payloads)
    THEN [ok |-> TRUE, v |-> acc]
    ELSE LET x == PayloadId(payloads[i])
         IN  IF ~x.ok THEN x ELSE PayloadIds(payloads, i + 1, Append(acc, x.v))

\* "Build Launch domain object": launch_time, payload_ids, then Launch(id=...)
BuildHeaviest(heaviest_doc, heaviest_mass) ==
    LET date_unix == Subscript(heaviest_doc, "date_unix")
        ts == IntOf(date_unix.v)
        payload_ids == PayloadIds(PayloadsOf(heaviest_doc), 1, <<>>)
        id == Subscript(heaviest_doc, "id")
    IN  IF ~date_unix.ok
        THEN Raise(date_unix.exc)
        ELSE IF ~ts.ok
        THEN Raise(ts.exc)
        ELSE IF ~payload_ids.ok
        THEN Raise(payload_ids.exc)
        ELSE IF ~id.ok
        THEN Raise(id.exc)
        ELSE Return(Launch(id.v,
                           UtcFromTimestamp(ts.v),
                           JList(payload_ids.v),
                           heaviest_mass))

\* from `launches = resp.json().get("docs", [])` to the return
SelectHeaviest(launches) ==
    IF launches = <<>>
    THEN Return(None)
    ELSE LET r == Reduce(launches, 1, None, None)
         IN  IF ~r.ok
             THEN Raise(r.exc)
             ELSE IF ~Truthy(r.doc)
             THEN Return(None)
             ELSE BuildHeaviest(r.doc, r.mass)

\* the whole method: the bodies posted and how the call ends
RunGetHeaviestLaunch(s, e, rem) ==
    IF InvalidRangeHeaviest(s, e)
    THEN [posts |-> <<>>, outcome |-> Return(None)]
    ELSE LET f == DateUnixFilterHeaviest(s, e)
         IN  IF ~f.ok
             THEN [posts |-> <<>>, outcome |-> Raise(f.exc)]
             ELSE LET body == RequestHeaviest(QueryBodyHeaviest(f.v))
                      resp == Post(body, rem)
                  IN  [posts |-> <<body>>,
                       outcome |->
                         IF ~resp.ok
                         THEN Raise(resp.exc)
                         ELSE IF ~resp.status_ok
                         THEN Raise("HTTPError")
                         ELSE SelectHeaviest(
                                GetOr(resp.json, "docs", JList(<<>>)).v)]

(***************************************************************************)
(* Bounds and the inputs of a call.                                        *)
(***************************************************************************)
\* longest canned response, in documents
MaxDocs == 3

\* most records a source remote holds
MaxSource == 2

SeqsUpTo(S, n) == UNION {[1..k -> S] : k \in 0..n}

\* calendar dates given as arguments: month ends, leap days, year ends, the
\* day before the epoch, and the dates of the test suite
SampleDates ==
    {Date(1969, 12, 31), Date(1970, 1, 1), Date(2000, 2, 28), Date(2018, 2, 1),
     Date(2018, 2, 28), Date(2020, 2, 29), Date(2020, 12, 30), Date(2022, 12, 31)}

DateMax == Date(9999, 12, 31)

StartDates == {None} \cup SampleDates

EndDates == {None} \cup SampleDates \cup {DateMax}

\* identifiers and timestamps of the documents of a response, by position
DocIds == <<"L1", "L2", "L3", "L4", "L5">>

DocTimes == <<1669852800, 1669852800, 1670198400, 1669852800, 1670198400>>

\* payload references: a bare identifier, or an expanded record
BareRef(id) == JStr(id)

Ref(id, mass_kg) == JDict(("id" :> JStr(id)) @@ ("mass_kg" :> mass_kg))

RefNoMass(id) == JDict("id" :> JStr(id))

RefNoId(mass_kg) == JDict("mass_kg" :> mass_kg)

Absent == [t |-> "absent"]

\* what a document holds under "payloads" (Absent: the key is missing)
PayloadFields ==
    {Absent, None, JList(<<>>),
     JList(<<BareRef("P0")>>),
     JList(<<Ref("P1", JInt(1))>>),
     JList(<<Ref("P2", JInt(2))>>),
     JList(<<Ref("P1", JInt(1)), Ref("P3", JInt(1))>>),
     JList(<<Ref("P4", None)>>),
     JList(<<RefNoMass("P5")>>),
     JList(<<BareRef("P0"), Ref("P1", JInt(1))>>),
     JList(<<Ref("P4", None), Ref("P2", JInt(2)), RefNoMass("P5")>>),
     JList(<<Ref("P6", JStr("heavy"))>>),
     JList(<<Ref("P7", JStr("2"))>>),
     JList(<<RefNoId(JInt(1))>>)}

\* the shapes of a document: complete, or lacking / nulling id or date_unix
DocShapes ==
    {[shape |-> "full", payloads |-> p] : p \in PayloadFields}
      \cup {[shape |-> k, payloads |-> JList(<<>>)] :
              k \in {"empty", "no_id", "null_id", "no_date", "null_date"}}

WithPayloads(f, p) == IF p = Absent THEN f ELSE f @@ ("payloads" :> p)

\* the i-th document of a response, of the given shape
MakeDoc(i, sh) ==
    LET id == "id" :> JStr(DocIds[i])
        ts == "date_unix" :> JInt(DocTimes[i])
    IN  CASE sh.shape = "full" -> JDict(WithPayloads(id @@ ts, sh.payloads))
          [] sh.shape = "empty" -> JDict(EmptyDict)
          [] sh.shape = "no_id" -> JDict(WithPayloads(ts, sh.payloads))
          [] sh.shape = "null_id" ->
                JDict(WithPayloads(("id" :> None) @@ ts, sh.payloads))
          [] sh.shape = "no_date" -> JDict(WithPayloads(id, sh.payloads))
          [] sh.shape = "null_date" ->
                JDict(WithPayloads(id @@ ("date_unix" :> None), sh.payloads))

\* the JSON bodies a canned remote answers with
CannedBodies ==
    {JDict(EmptyDict)}
      \cup {JDict("docs" :> JList([i \in DOMAIN shapes |-> MakeDoc(i, shapes[i])])) :
              shapes \in SeqsUpTo(DocShapes, MaxDocs)}

\* timestamps of stored records: around the bounds of the range asked for
Stamps(s, e) ==
    {1518681600}
      \cup (IF Truthy(s)
            THEN {UtcMidnightTimestamp(s) - 1, UtcMidnightTimestamp(s)}
            ELSE {})
      \cup (IF Truthy(e) /\ e # DateMax
            THEN {UtcMidnightTimestamp(e) + 86399, UtcMidnightTimestamp(e) + 86400}
            ELSE {})

MakeRecord(i, ts) ==
    JDict(("id" :> JStr(DocIds[i])) @@ ("date_unix" :> JInt(ts))
            @@ ("payloads" :> JList(<<>>)))

SourceRemotes(s, e) ==
    {Source([i \in DOMAIN stamps |-> MakeRecord(i, stamps[i])]) :
       stamps \in SeqsUpTo(Stamps(s, e), MaxSource)}

\* calls that exercise the date range: every pair of dates, against a failing
\* remote or a source holding records around the bounds
RangeInputs ==
    UNION {{<<s, e, r>> : r \in {TransportError, HttpError} \cup SourceRemotes(s, e)} :
             <<s, e>> \in StartDates \X EndDates}

\* calls that exercise the response: a canned body, unbounded or December 2022
CannedInputs ==
    {<<se[1], se[2], Canned(b)>> :
       se \in {<<None, None>>, <<Date(2022, 12, 1), Date(2022, 12, 31)>>},
       b \in CannedBodies}

Inputs == RangeInputs \cup CannedInputs

(***************************************************************************)
(* The state machine: one call per behaviour.                              *)
(***************************************************************************)
Init ==
    /\ pc = "ready"
    /\ op = "none"
    /\ posts = <<>>
    /\ outcome = [kind |-> "none"]
    /\ \E i \in Inputs :
         /\ start_date = i[1]
         /\ end_date = i[2]
         /\ remote = i[3]

get_launches ==
    /\ pc = "ready"
    /\ LET r == RunGetLaunches(start_date, end_date, remote)
       IN  /\ posts' = r.posts
           /\ outcome' = r.outcome
    /\ op' = "get_launches"
    /\ pc' = "done"
    /\ UNCHANGED <<start_date, end_date, remote>>

get_heaviest_launch ==
    /\ pc = "ready"
    /\ LET r == RunGetHeaviestLaunch(start_date, end_date, remote)
       IN  /\ posts' = r.posts
           /\ outcome' = r.outcome
    /\ op' = "get_heaviest_launch"
    /\ pc' = "done"
    /\ UNCHANGED <<start_date, end_date, remote>>

Next == get_launches \/ get_heaviest_launch

Spec == Init /\ [][Next]_vars

(***************************************************************************)
(* Calendar arithmetic used to state the properties, computed another way  *)
(* than the client computes it: days since 1970-01-01 counted in 400-year  *)
(* eras with the year starting in March, and the day after a date read off *)
(* the calendar.                                                           *)
(***************************************************************************)
CivilEpochDays(d) ==
    LET y == IF d.month <= 2 THEN d.year - 1 ELSE d.year
        era == y \div 400
        yoe == y - era * 400
        mp == IF d.month > 2 THEN d.month - 3 ELSE d.month + 9
        doy == ((153 * mp + 2) \div 5) + d.day - 1
        doe == yoe * 365 + (yoe \div 4) - (yoe \div 100) + doy
    IN  era * 146097 + doe - 719468

CivilEpochSeconds(d) == CivilEpochDays(d) * 86400

CivilLastDay(y, m) ==
    IF m = 2
    THEN (IF (y % 4 = 0 /\ y % 100 # 0) \/ y % 400 = 0 THEN 29 ELSE 28)
    ELSE IF m \in {4, 6, 9, 11} THEN 30 ELSE 31

CivilNextDay(d) ==
    IF d.day < CivilLastDay(d.year, d.month)
    THEN Date(d.year, d.month, d.day + 1)
    ELSE IF d.month < 12
    THEN Date(d.year, d.month + 1, 1)
    ELSE Date(d.year + 1, 1, 1)

Given(x) == x.t # "None"

\* both dates given and start_date strictly after end_date
StartAfterEnd == Given(start_date) /\ Given(end_date)
                   /\ CivilEpochDays(start_date) > CivilEpochDays(end_date)

Called(name) == pc = "done" /\ op = name

\* the documents of a canned response, in response order
ResponseDocs ==
    IF "docs" \in DOMAIN remote.body.v THEN remote.body.v["docs"].v ELSE <<>>

IsLaunch(x) == x.t = "Launch"

(***************************************************************************)
(* C1: whenever both dates are given and start_date is strictly after      *)
(* end_date, get_launches returns the empty list and get_heaviest_launch   *)
(* returns None, and the call has posted nothing.                          *)
(***************************************************************************)
C1_InvalidRangeShortCircuits ==
    (pc = "done" /\ StartAfterEnd) =>
        /\ posts = <<>>
        /\ outcome.kind = "return"
        /\ (op = "get_launches" => outcome.value = <<>>)
        /\ (op = "get_heaviest_launch" => outcome.value = None)

\* get_launches was called with an inverted range on a source that holds records
C1_Witness ==
    /\ Called("get_launches")
    /\ StartAfterEnd
    /\ remote.kind = "source"
    /\ remote.records # <<>>
    /\ posts = <<>>
    /\ outcome = Return(<<>>)

(***************************************************************************)
(* C2: a call that is not short-circuited (and whose end_date has a next   *)
(* day) posts a query, and the query either operation posts is the same    *)
(* function of (start_date, end_date): {} when neither date is given;      *)
(* otherwise { date_unix: f } where f has $gte iff start_date is given,    *)
(* equal to the epoch seconds of start_date 00:00:00 UTC, and $lt iff      *)
(* end_date is given, equal to the epoch seconds of the day after end_date *)
(* 00:00:00 UTC.                                                           *)
(***************************************************************************)
ExpectedQuery(q) ==
    IF ~Given(start_date) /\ ~Given(end_date)
    THEN DOMAIN q = {}
    ELSE /\ DOMAIN q = {"date_unix"}
         /\ LET f == q["date_unix"]
            IN  /\ DOMAIN f \subseteq {"$gte", "$lt"}
                /\ ("$gte" \in DOMAIN f) = Given(start_date)
                /\ ("$lt" \in DOMAIN f) = Given(end_date)
                /\ (Given(start_date) =>
                      f["$gte"] = CivilEpochSeconds(start_date))
                /\ (Given(end_date) =>
                      f["$lt"] = CivilEpochSeconds(CivilNextDay(end_date)))

\* C2: every query posted by either operation is the expected function of the dates
C2_FilterShape ==
    (pc = "done" /\ ~StartAfterEnd) =>
        /\ (end_date # DateMax => posts # <<>>)
        /\ \A i \in DOMAIN posts : ExpectedQuery(posts[i].query)

\* get_heaviest_launch posted a two-sided filter whose upper bound crosses the
\* end of February in a leap year
C2_Witness ==
    /\ Called("get_heaviest_launch")
    /\ start_date = Date(2018, 2, 1)
    /\ end_date = Date(2020, 2, 29)
    /\ Len(posts) = 1
    /\ posts[1].query["date_unix"]["$lt"] = CivilEpochSeconds(Date(2020, 3, 1))
    /\ posts[1].query["date_unix"]["$gte"] = CivilEpochSeconds(Date(2018, 2, 1))

(***************************************************************************)
(* C3: for start_date <= end_date, when get_launches queries a source that *)
(* answers with exactly the records satisfying the filter it is sent, a    *)
(* record timestamped within [start_date 00:00:00, end_date 23:59:59] UTC  *)
(* is in the result, and a record timestamped before start_date 00:00:00   *)
(* or at/after (end_date + 1 day) 00:00:00 is not.                         *)
(***************************************************************************)
ResultIds == {outcome.value[i].id : i \in DOMAIN outcome.value}

RecordStamp(r) == r.v["date_unix"].v

InRange(ts) ==
    /\ ts >= CivilEpochSeconds(start_date)
    /\ ts <= CivilEpochSeconds(end_date) + 86399

\* C3: a stored record is returned by get_launches iff its timestamp is in the range
C3_InclusiveRange ==
    (/\ Called("get_launches")
     /\ remote.kind = "source"
     /\ Given(start_date) /\ Given(end_date) /\ ~StartAfterEnd
     /\ posts # <<>>) =>
        /\ outcome.kind = "return"
        /\ \A i \in DOMAIN remote.records :
             LET r == remote.records[i]
             IN  (r.v["id"] \in ResultIds) = InRange(RecordStamp(r))

\* a one-day range: the source holds a record at 23:59:59 of that day and one at
\* 00:00:00 of the next; the first is returned and the second is not
C3_Witness ==
    /\ Called("get_launches")
    /\ remote.kind = "source"
    /\ start_date = Date(2018, 2, 28)
    /\ end_date = Date(2018, 2, 28)
    /\ Len(remote.records) = 2
    /\ RecordStamp(remote.records[1]) = CivilEpochSeconds(Date(2018, 2, 28)) + 86399
    /\ RecordStamp(remote.records[2]) = CivilEpochSeconds(Date(2018, 3, 1))
    /\ outcome.kind = "return"
    /\ ResultIds = {remote.records[1].v["id"]}

(***************************************************************************)
(* The mass of a record as the specification defines it: the sum over its  *)
(* payload references of the mass of an expanded record that carries a     *)
(* number (or decimal text), and 0 for every other reference.              *)
(***************************************************************************)
NominalMass(p) ==
    IF p.t = "dict" /\ "mass_kg" \in DOMAIN p.v
    THEN LET m == p.v["mass_kg"]
         IN  CASE m.t \in {"int", "float"} -> m.v
               [] m.t = "str" /\ m.v \in DOMAIN DecimalText -> DecimalText[m.v]
               [] OTHER -> 0
    ELSE 0

NominalPayloads(doc) ==
    IF "payloads" \in DOMAIN doc.v /\ doc.v["payloads"].t = "list"
    THEN doc.v["payloads"].v
    ELSE <<>>

NominalTotal(doc) ==
    LET ps == NominalPayloads(doc)
        S[i \in 0..Len(ps)] == IF i = 0 THEN 0 ELSE S[i - 1] + NominalMass(ps[i])
    IN  S[Len(ps)]

\* the first record, in response order, of greatest mass
FirstHeaviest ==
    CHOOSE i \in DOMAIN ResponseDocs :
        /\ \A j \in DOMAIN ResponseDocs :
             NominalTotal(ResponseDocs[j]) <= NominalTotal(ResponseDocs[i])
        /\ \A j \in 1..(i - 1) :
             NominalTotal(ResponseDocs[j]) < NominalTotal(ResponseDocs[i])

\* get_heaviest_launch got a canned response and returned a Launch
HeaviestReturned ==
    /\ Called("get_heaviest_launch")
    /\ remote.kind = "canned"
    /\ outcome.kind = "return"
    /\ IsLaunch(outcome.value)

(***************************************************************************)
(* C4: a Launch returned by get_heaviest_launch is built from a record of  *)
(* the response whose summed payload mass is at least that of every record *)
(* of the response, and its total_payload_mass_kg is that record's sum.    *)
(***************************************************************************)
C4_AggregationMax ==
    HeaviestReturned =>
        \E i \in DOMAIN ResponseDocs :
            LET d == ResponseDocs[i]
            IN  /\ outcome.value.id = Get(d, "id")
                /\ \A j \in DOMAIN ResponseDocs :
                     NominalTotal(d) >= NominalTotal(ResponseDocs[j])
                /\ outcome.value.total_payload_mass_kg = JFloat(NominalTotal(d))

\* a lighter single-payload record first, then a record whose two payloads sum
\* to more: the second is returned with the sum
C4_Witness ==
    /\ HeaviestReturned
    /\ Len(ResponseDocs) = 2
    /\ NominalTotal(ResponseDocs[1]) = 1
    /\ Len(NominalPayloads(ResponseDocs[2])) = 2
    /\ NominalTotal(ResponseDocs[2]) = 2
    /\ outcome.value.id = JStr("L2")
    /\ outcome.value.total_payload_mass_kg = JFloat(2)

(***************************************************************************)
(* C5: a Launch returned by get_heaviest_launch carries the id of the      *)
(* first record, in response order, among those of greatest summed mass: a *)
(* later record of equal mass never replaces it, the same timestamp and a  *)
(* tied mass of 0.0 included.                                              *)
(***************************************************************************)
C5_TieBreakFirstWins ==
    HeaviestReturned =>
        outcome.value.id = Get(ResponseDocs[FirstHeaviest], "id")

\* three records: the first two tie at the greatest mass and share a timestamp
C5_Witness ==
    /\ HeaviestReturned
    /\ Len(ResponseDocs) = 3
    /\ NominalTotal(ResponseDocs[1]) = 2
    /\ NominalTotal(ResponseDocs[2]) = 2
    /\ NominalTotal(ResponseDocs[3]) = 0
    /\ ResponseDocs[1].v["date_unix"] = ResponseDocs[2].v["date_unix"]
    /\ outcome.value.id = JStr("L1")

(***************************************************************************)
(* C6: malformed payload mass is never an error: on a response whose       *)
(* records all carry id and date_unix and whose expanded payloads all      *)
(* carry an id, get_heaviest_launch completes normally, a payload whose    *)
(* mass_kg is null, missing or non-numeric and a bare identifier each      *)
(* adding 0.0 to the total.                                                *)
(***************************************************************************)
CompleteDoc(d) ==
    /\ Get(d, "id").t = "str"
    /\ Get(d, "date_unix").t = "int"
    /\ \A k \in DOMAIN NominalPayloads(d) :
         NominalPayloads(d)[k].t = "dict" => "id" \in DOMAIN NominalPayloads(d)[k].v

\* C6: on complete records the call returns a Launch whose total counts malformed masses as 0.0
C6_MalformedMassNeverAnError ==
    (/\ Called("get_heaviest_launch")
     /\ remote.kind = "canned"
     /\ ResponseDocs # <<>>
     /\ \A i \in DOMAIN ResponseDocs : CompleteDoc(ResponseDocs[i])) =>
        /\ outcome.kind = "return"
        /\ IsLaunch(outcome.value)
        /\ outcome.value.total_payload_mass_kg
             = JFloat(NominalTotal(ResponseDocs[FirstHeaviest]))

(***************************************************************************)
(* C7: on every response get_launches returns, in response order and with  *)
(* nothing added, one Launch for each record that has both an id and a     *)
(* date_unix (not null), carrying that id and no total_payload_mass_kg;    *)
(* the other records are dropped and no error is raised.                   *)
(***************************************************************************)
HasIdAndDate(d) ==
    /\ "id" \in DOMAIN d.v /\ d.v["id"] # None
    /\ "date_unix" \in DOMAIN d.v /\ d.v["date_unix"] # None

\* C7: the result is the subsequence of records with id and date_unix, in order
C7_ListingSubsequence ==
    (Called("get_launches") /\ remote.kind = "canned") =>
        /\ outcome.kind = "return"
        /\ LET kept == SelectSeq(ResponseDocs, HasIdAndDate)
           IN  /\ Len(outcome.value) = Len(kept)
               /\ \A i \in DOMAIN kept :
                    /\ outcome.value[i].id = kept[i].v["id"]
                    /\ outcome.value[i].total_payload_mass_kg = None

\* three records, the middle one without a date_unix: the first and the third
\* are returned in that order
C7_Witness ==
    /\ Called("get_launches")
    /\ remote.kind = "canned"
    /\ Len(ResponseDocs) = 3
    /\ "date_unix" \notin DOMAIN ResponseDocs[2].v
    /\ "id" \in DOMAIN ResponseDocs[2].v
    /\ outcome.kind = "return"
    /\ Len(outcome.value) = 2
    /\ outcome.value[1].id = JStr("L1")
    /\ outcome.value[2].id = JStr("L3")

(***************************************************************************)
(* C8: every call that is not short-circuited posts exactly one query, and *)
(* when the query fails (transport error or error status) the call ends in *)
(* an exception, with no result and no second query.                       *)
(***************************************************************************)
C8_ExactlyOneQuery ==
    (pc = "done" /\ ~StartAfterEnd) =>
        /\ Len(posts) = 1
        /\ (remote.kind \in {"transport_error", "http_error"} =>
              outcome.kind = "raise")

(***************************************************************************)
(* C9: the payload_ids of a Launch returned by get_heaviest_launch has the *)
(* length and order of the winning record's payload list (empty when the   *)
(* list is missing or null): the id of an expanded record, the reference   *)
(* itself when it is a bare identifier.                                    *)
(***************************************************************************)
C9_PayloadIdsOrder ==
    HeaviestReturned =>
        LET ps == NominalPayloads(ResponseDocs[FirstHeaviest])
            ids == outcome.value.payload_ids
        IN  /\ ids.t = "list"
            /\ Len(ids.v) = Len(ps)
            /\ \A k \in DOMAIN ps :
                 ids.v[k] = IF ps[k].t = "dict" THEN Get(ps[k], "id") ELSE ps[k]

\* the winner lists a null-mass record, a 2 kg record and a record without
\* mass: their ids come back in that order
C9_Witness ==
    /\ HeaviestReturned
    /\ Len(NominalPayloads(ResponseDocs[FirstHeaviest])) = 3
    /\ outcome.value.payload_ids = JList(<<JStr("P4"), JStr("P2"), JStr("P5")>>)

(***************************************************************************)
(* C10: get_heaviest_launch returns None only for an invalid range or a    *)
(* response without records: on a valid range and a response with at least *)
(* one record (payload masses being numbers, null or missing) it returns a *)
(* Launch carrying the id of one of the records, whatever fields the       *)
(* records carry.                                                          *)
(***************************************************************************)
MassesParse(d) ==
    \A k \in DOMAIN NominalPayloads(d) :
        LET p == NominalPayloads(d)[k]
        IN  (p.t = "dict" /\ "mass_kg" \in DOMAIN p.v) =>
                p.v["mass_kg"].t \in {"int", "float", "None"}

\* C10: a non-empty response on a valid range yields a Launch with the id of one of its records
C10_NoneOnlyWhenEmpty ==
    (/\ Called("get_heaviest_launch")
     /\ remote.kind = "canned"
     /\ ~StartAfterEnd
     /\ ResponseDocs # <<>>
     /\ \A i \in DOMAIN ResponseDocs : MassesParse(ResponseDocs[i])) =>
        /\ outcome.kind = "return"
        /\ IsLaunch(outcome.value)
        /\ \E i \in DOMAIN ResponseDocs :
             outcome.value.id = Get(ResponseDocs[i], "id")

====
